---------------------------- MODULE Spec2Model ----------------------------
(***************************************************************************)
(* A model of MapboxWebGLCustomLayer (src/src/main.ts) and of the          *)
(* georeferencing helpers it uses (mapbox/util.ts).                        *)
(*                                                                         *)
(* The controller's fields are the variables.  Every public method and     *)
(* every host callback is one action: JavaScript runs each of them to      *)
(* completion, so the only interleaving points are between handlers and    *)
(* between a handler and a setTimeout callback.  Inside an action the      *)
(* handler's statements are applied in source order to a record of the     *)
(* controller and of the objects it created; the record also carries the   *)
(* log of the calls the handler made on its collaborators (engine, scene,  *)
(* camera, host map, console, timers) and whether an exception left it.    *)
(* Calls into Babylon and mapbox-gl return normally, except a call on an   *)
(* undefined receiver (a TypeError) and engine.wipeCaches, which the       *)
(* environment may make throw.                                             *)
(*                                                                         *)
(* Numbers.  The source computes in IEEE doubles.  The model computes in   *)
(* integers (metres; angles and cosines in hundredths) extended with the   *)
(* non-finite doubles NaN, +Infinity and -Infinity, which the source       *)
(* produces at the poles, and with "eps", a positive double below the      *)
(* model's resolution (cos of -pi/2 is 6.1e-17 in doubles, not 0).         *)
(***************************************************************************)
EXTENDS Integers, Sequences, FiniteSets, TLC

-----------------------------------------------------------------------------
(* Bounds of the model. *)

\* how many times the host may call onAdd
MaxAttach == 2
\* how many waitForSceneInit promises may be created
MaxWaits == 1

-----------------------------------------------------------------------------
(* Doubles: finite fixed-point values and the non-finite ones. *)

Fin(n) == [k |-> "fin", v |-> n]
NaN == [k |-> "nan", v |-> 0]
PInf == [k |-> "pinf", v |-> 0]
NInf == [k |-> "ninf", v |-> 0]
\* a positive double smaller than the model's resolution
Eps == [k |-> "eps", v |-> 0]

IsFin(a) == a.k = "fin" \/ a.k = "eps"
FinVal(a) == IF a.k = "fin" THEN a.v ELSE 0

\* the sign of a double: -1, 0 or 1 (NaN has none)
Sign(a) ==
  CASE a.k = "pinf" -> 1
    [] a.k = "ninf" -> -1
    [] a.k = "eps" -> 1
    [] a.k = "fin" -> (IF a.v > 0 THEN 1 ELSE IF a.v < 0 THEN -1 ELSE 0)
    [] OTHER -> 0

ExtNeg(a) ==
  CASE a.k = "fin" -> Fin(0 - a.v)
    [] a.k = "pinf" -> NInf
    [] a.k = "ninf" -> PInf
    [] a.k = "eps" -> Fin(0)
    [] OTHER -> NaN

ExtAdd(a, b) ==
  CASE a.k = "nan" \/ b.k = "nan" -> NaN
    [] IsFin(a) /\ IsFin(b) -> Fin(FinVal(a) + FinVal(b))
    [] IsFin(a) -> b
    [] IsFin(b) -> a
    [] a.k = b.k -> a
    [] OTHER -> NaN

ExtSub(a, b) == ExtAdd(a, ExtNeg(b))

ExtMul(a, b) ==
  CASE a.k = "nan" \/ b.k = "nan" -> NaN
    [] a.k = "fin" /\ b.k = "fin" -> Fin(a.v * b.v)
    [] IsFin(a) /\ IsFin(b) -> (IF a.k = "eps" /\ b.k = "eps" THEN Eps ELSE Fin(0))
    [] Sign(a) * Sign(b) = 0 -> NaN
    [] Sign(a) * Sign(b) > 0 -> PInf
    [] OTHER -> NInf

\* division of a double by a positive integer, rounding towards zero
ExtDivInt(a, n) ==
  IF a.k = "fin"
  THEN (IF a.v < 0 THEN Fin(0 - ((0 - a.v) \div n)) ELSE Fin(a.v \div n))
  ELSE a

Vec(x, y, z) == <<x, y, z>>

-----------------------------------------------------------------------------
(* util.ts: the georeferencing transform. *)

\* metres
EARTH_RADIUS == 6371010

\* Tools.ToRadians, in hundredths of a radian, on the longitudes and latitudes
\* (degrees) the model draws points from
ToRadians(deg) ==
  CASE deg = 0 -> 0
    [] deg = 60 -> 105
    [] deg = 90 -> 157
    [] deg = -90 -> -157

\* log(tan(0.25 * PI + 0.5 * ToRadians(lat))), in hundredths; the argument of
\* tan is 0.0 at lat = -90, so the logarithm is -Infinity there
LogTan(lat) ==
  CASE lat = 0 -> Fin(0)
    [] lat = 60 -> Fin(132)
    [] lat = -90 -> NInf

\* cos(Tools.ToRadians(lat)), in hundredths; positive in doubles at -90
CosLat(lat) ==
  CASE lat = 0 -> Fin(100)
    [] lat = 60 -> Fin(50)
    [] lat = -90 -> Eps

latLngToXY(position) ==
  << ExtDivInt(Fin(EARTH_RADIUS * ToRadians(position.lng)), 100),
     ExtDivInt(ExtMul(Fin(EARTH_RADIUS), LogTan(position.lat)), 100) >>

\* the value written into (and returned as) target
latLngToVector3Relative(point, reference) ==
  LET p == latLngToXY(point)
      r == latLngToXY(reference)
      val == CosLat(reference.lat)
      x == ExtDivInt(ExtMul(ExtSub(p[1], r[1]), val), 100)
      y == ExtDivInt(ExtMul(ExtSub(p[2], r[2]), val), 100)
  IN  Vec(x, y, Fin(point.altitude - reference.altitude))

-----------------------------------------------------------------------------
(* Optional values: undefined is the empty sequence, a value v is <<v>>. *)

Undefined == <<>>
Some(v) == <<v>>
\* a ?? b
Coalesce(o, d) == IF o # <<>> THEN o[1] ELSE d

-----------------------------------------------------------------------------
(* main.ts: the orientation correction. *)

\* new Vector3(0, 1, 0)
DEFAULT_UP == <<0, 1, 0>>
CAMERA_NAME == "mapbox-camera"

Abs(n) == IF n < 0 THEN 0 - n ELSE n

\* String.prototype.toLowerCase on the strings the model passes
ToLowerCase(s) ==
  CASE s = "Y" -> "y"
    [] s = "Z" -> "z"
    [] s = "X" -> "x"
    [] OTHER -> s

\* what setUpAxis may be given: a string (the type says "Y" or "Z", JavaScript
\* passes any) or a Vector3 with integer components along one axis
AxisString(s) == [isString |-> TRUE, s |-> s, v |-> <<0, 0, 0>>]
AxisVector(v) == [isString |-> FALSE, s |-> "", v |-> v]

\* Vector3.normalize, for a vector along one axis (the zero vector is kept)
NormalizeVec(v) ==
  LET len == Abs(v[1]) + Abs(v[2]) + Abs(v[3])
  IN  IF len = 0 THEN v ELSE <<v[1] \div len, v[2] \div len, v[3] \div len>>

Dot(a, b) == a[1] * b[1] + a[2] * b[2] + a[3] * b[3]
Cross(a, b) ==
  << a[2] * b[3] - a[3] * b[2],
     a[3] * b[1] - a[1] * b[3],
     a[1] * b[2] - a[2] * b[1] >>

\* A quaternion is kept as four integers <<x, y, z, w>> that give its direction;
\* the unit quaternion it stands for is the tuple divided by its length.
QNorm2(q) == q[1] * q[1] + q[2] * q[2] + q[3] * q[3] + q[4] * q[4]

\* Quaternion.normalize, on directions: <<0,0,0,2>> and <<0,0,0,1>> are one
\* unit quaternion
QNormalize(q) ==
  IF QNorm2(q) = 4
  THEN <<q[1] \div 2, q[2] \div 2, q[3] \div 2, q[4] \div 2>>
  ELSE q

\* Quaternion.FromUnitVectorsToRef(vecFrom, vecTo, result)
FromUnitVectors(vecFrom, vecTo) ==
  LET r == Dot(vecFrom, vecTo) + 1
      c == Cross(vecFrom, vecTo)
  IN  IF r < 1
      THEN (IF Abs(vecFrom[1]) > Abs(vecFrom[3])
            THEN QNormalize(<<0 - vecFrom[2], vecFrom[1], 0, 0>>)
            ELSE QNormalize(<<0, 0 - vecFrom[3], vecFrom[2], 0>>))
      ELSE QNormalize(<<c[1], c[2], c[3], r>>)

\* Quaternion.invert, of a unit quaternion
QInvert(q) == <<0 - q[1], 0 - q[2], 0 - q[3], q[4]>>

\* Math.atan2 in quarter turns, for arguments on the axes
Atan2Q(y, x) ==
  CASE y = 0 /\ x >= 0 -> 0
    [] y > 0 /\ x = 0 -> 1
    [] y = 0 /\ x < 0 -> 2
    [] y < 0 /\ x = 0 -> -1

\* Quaternion.toEulerAngles, in quarter turns <<x, y, z>>; zAxisY of the unit
\* quaternion is (qy qz - qx qw) / |q|^2, beyond the limit when it is +-1/2
toEulerAngles(q) ==
  LET n2 == QNorm2(q)
      zAxisY2 == 2 * (q[2] * q[3] - q[1] * q[4])
  IN  IF zAxisY2 <= 0 - n2
      THEN <<1, 2 * Atan2Q(q[2], q[4]), 0>>
      ELSE IF zAxisY2 >= n2
      THEN <<-1, 2 * Atan2Q(q[2], q[4]), 0>>
      ELSE << 0,
              Atan2Q(2 * (q[3] * q[1] + q[2] * q[4]),
                     q[3] * q[3] - q[1] * q[1] - q[2] * q[2] + q[4] * q[4]),
              Atan2Q(2 * (q[1] * q[2] + q[3] * q[4]),
                     q[2] * q[2] + q[4] * q[4] - q[3] * q[3] - q[1] * q[1]) >>

\* Vector3.applyRotationQuaternion: v + w t + q x t with t = 2 q x v, computed
\* on doubles, so a NaN or an infinite component spreads through the products
ExtCross(q, v) ==
  << ExtSub(ExtMul(Fin(q[2]), v[3]), ExtMul(Fin(q[3]), v[2])),
     ExtSub(ExtMul(Fin(q[3]), v[1]), ExtMul(Fin(q[1]), v[3])),
     ExtSub(ExtMul(Fin(q[1]), v[2]), ExtMul(Fin(q[2]), v[1])) >>

applyRotationQuaternion(v, q) ==
  LET n2 == QNorm2(q)
      t == ExtCross(q, v)
      t2 == <<ExtMul(Fin(2), t[1]), ExtMul(Fin(2), t[2]), ExtMul(Fin(2), t[3])>>
      qt == ExtCross(q, t2)
  IN  [i \in 1..3 |->
        ExtAdd(v[i], ExtDivInt(ExtAdd(ExtMul(Fin(q[4]), t2[i]), qt[i]), n2))]

\* faulty variant: every string but "y" is taken for "Z"
upVectorOf_defaultZ(axis) ==
  IF ~axis.isString THEN axis.v
  ELSE IF ToLowerCase(axis.s) = "y" THEN <<0, 1, 0>>
  ELSE <<0, 0, 1>>

\* the up vector setUpAxis derives from its argument, and whether it warns
upVectorOf(axis) ==
  IF ~axis.isString THEN axis.v
  ELSE IF ToLowerCase(axis.s) = "z" THEN <<0, 0, 1>>
  ELSE <<0, 1, 0>>

warnsOn(axis) ==
  axis.isString /\ ToLowerCase(axis.s) # "z" /\ ToLowerCase(axis.s) # "y"

-----------------------------------------------------------------------------
(* mapbox-gl: MercatorCoordinate, as far as the controller reads it.       *)
(* x and y are in 1/10000 of the world's width, the scale in 1e-10 of it   *)
(* per metre.                                                              *)

mercatorX(lng) ==
  CASE lng = 0 -> 5000
    [] lng = 90 -> 7500

mercatorY(lat) ==
  CASE lat = 0 -> 5000
    [] lat = 60 -> 2904

\* meterInMercatorCoordinateUnits(): 1 / (circumference * cos(lat))
meterInMercatorCoordinateUnits(lat) ==
  CASE lat = 0 -> 250
    [] lat = 60 -> 500

\* MercatorCoordinate.fromLngLat(lngLat, altitude)
fromLngLat(lngLat, altitude) ==
  [ x |-> mercatorX(lngLat.lng),
    y |-> mercatorY(lngLat.lat),
    z |-> altitude * meterInMercatorCoordinateUnits(lngLat.lat),
    lat |-> lngLat.lat ]

-----------------------------------------------------------------------------
(* Babylon matrices, kept as the terms that build them. *)

RotationYawPitchRoll(yaw, pitch, roll) == [yaw |-> yaw, pitch |-> pitch, roll |-> roll]
Compose(s, r, t) == [scale |-> s, rotation |-> r, translation |-> t]
Multiply(a, b) == [left |-> a, right |-> b]

-----------------------------------------------------------------------------
(* The inputs the model draws from. *)

\* LatLngAltLike values given to setAnchor and latLngAltitudeToVector3Ref
Points ==
  { [lat |-> 0, lng |-> 0, altitude |-> 0],
    [lat |-> 60, lng |-> 90, altitude |-> 10],
    [lat |-> -90, lng |-> 0, altitude |-> 0] }

\* the options objects given to the constructor: each anchor (with and without
\* an altitude), upAxis given and omitted, camera given and omitted (a camera
\* the caller made is camera 1 of the heap), every two of them in all four
\* combinations
CtorOptions ==
  { [ anchor |-> [lat |-> 0, lng |-> 0], altitude |-> Undefined,
      upAxis |-> Undefined, camera |-> Undefined,
      addDefaultLighting |-> Undefined, useRightHandedSystem |-> Undefined ],
    [ anchor |-> [lat |-> 0, lng |-> 0], altitude |-> Undefined,
      upAxis |-> Some(AxisString("Z")), camera |-> Some(1),
      addDefaultLighting |-> Undefined, useRightHandedSystem |-> Undefined ],
    [ anchor |-> [lat |-> 60, lng |-> 90], altitude |-> Some(10),
      upAxis |-> Undefined, camera |-> Some(1),
      addDefaultLighting |-> Some(FALSE), useRightHandedSystem |-> Some(TRUE) ],
    [ anchor |-> [lat |-> 60, lng |-> 90], altitude |-> Some(10),
      upAxis |-> Some(AxisString("Z")), camera |-> Undefined,
      addDefaultLighting |-> Undefined, useRightHandedSystem |-> Undefined ] }

\* arguments of setUpAxis
UpAxes ==
  { AxisString("Y"), AxisString("y"), AxisString("Z"), AxisString("z"),
    AxisString("X"),
    AxisVector(<<0, 0, 2>>) }

\* the host's projection matrices (16 numbers each, opaque to the controller)
Matrices == { "M1", "M2" }

-----------------------------------------------------------------------------
(* The state. *)

VARIABLES
  options,                  \* this.options, as the constructor left it
  anchor,                   \* this.anchor
  rotationInverse,          \* this.rotationInverse
  rotationArray,            \* this.rotationArray
  engine,                   \* this._engine: 0 (undefined) or an engine of the heap
  scene,                    \* this._scene: 0 or a scene of the heap
  camera,                   \* this._camera: 0 or a camera of the heap
  map,                      \* this._map: Undefined or Some("map")
  scale,                    \* this._scale
  anchorMercatorCoordinate, \* this._anchorMercatorCoordinate
  engines,                  \* the Engine objects ever created
  scenes,                   \* the Scene objects ever created
  cameras,                  \* the Camera objects ever created
  repaintPending,           \* the host map has been asked to repaint
  waits,                    \* the promises waitForSceneInit returned, with their timers
  peakLive,                 \* most engines / scenes alive at once, at any statement
  last                      \* the most recent handler: its calls, result, exception

ctl == <<options, anchor, rotationInverse, rotationArray, engine, scene, camera,
         map, scale, anchorMercatorCoordinate>>
heap == <<engines, scenes, cameras>>
vars == <<options, anchor, rotationInverse, rotationArray, engine, scene, camera,
          map, scale, anchorMercatorCoordinate, engines, scenes, cameras,
          repaintPending, waits, peakLive, last>>

\* the state as one record, for the statements of a handler to work on
Cur ==
  [ options |-> options, anchor |-> anchor, rotationInverse |-> rotationInverse,
    rotationArray |-> rotationArray, engine |-> engine, scene |-> scene,
    camera |-> camera, map |-> map, scale |-> scale,
    anchorMercatorCoordinate |-> anchorMercatorCoordinate,
    engines |-> engines, scenes |-> scenes, cameras |-> cameras,
    repaintPending |-> repaintPending, waits |-> waits, peakLive |-> peakLive,
    calls |-> <<>>, threw |-> FALSE, result |-> Undefined ]

\* the handler named op, called with arg, ends in m
Commit(m, op, arg) ==
  /\ options' = m.options
  /\ anchor' = m.anchor
  /\ rotationInverse' = m.rotationInverse
  /\ rotationArray' = m.rotationArray
  /\ engine' = m.engine
  /\ scene' = m.scene
  /\ camera' = m.camera
  /\ map' = m.map
  /\ scale' = m.scale
  /\ anchorMercatorCoordinate' = m.anchorMercatorCoordinate
  /\ engines' = m.engines
  /\ scenes' = m.scenes
  /\ cameras' = m.cameras
  /\ repaintPending' = m.repaintPending
  /\ waits' = m.waits
  /\ peakLive' = m.peakLive
  /\ last' = [op |-> op, arg |-> arg, calls |-> m.calls, threw |-> m.threw,
              result |-> m.result]

\* a call on a collaborator, logged
Call(m, c) == [m EXCEPT !.calls = Append(@, c)]
\* an exception leaves the handler: nothing after it runs
Throw(m) == [m EXCEPT !.threw = TRUE]

-----------------------------------------------------------------------------
(* The collaborators: Babylon's Engine, Scene and Camera, the host map,    *)
(* the console and the timers, as far as the controller drives them.       *)

NoArg == [point |-> Undefined, axis |-> Undefined, matrix |-> "", wipeThrows |-> FALSE, wait |-> 0]

Max(a, b) == IF a > b THEN a ELSE b
LiveCount(objs) == Cardinality({i \in 1..Len(objs) : ~objs[i].disposed})
NotePeak(m) ==
  [m EXCEPT !.peakLive = <<Max(@[1], LiveCount(m.engines)), Max(@[2], LiveCount(m.scenes))>>]

\* this._scene.dispose(): the scene and the cameras that belong to it
sceneDispose(m) ==
  Call([m EXCEPT
         !.scenes[m.scene].disposed = TRUE,
         !.cameras = [i \in 1..Len(m.cameras) |->
                        IF m.cameras[i].scene = m.scene
                        THEN [m.cameras[i] EXCEPT !.disposed = TRUE]
                        ELSE m.cameras[i]]],
       "scene.dispose")

\* this._engine.dispose(): the engine and the scenes still on it
engineDispose(m) ==
  Call([m EXCEPT
         !.engines[m.engine].disposed = TRUE,
         !.scenes = [i \in 1..Len(m.scenes) |->
                       IF m.scenes[i].engine = m.engine
                       THEN [m.scenes[i] EXCEPT !.disposed = TRUE]
                       ELSE m.scenes[i]]],
       "engine.dispose")

\* this._engine = new Engine(gl, ...); this._engine.stopRenderLoop()
newEngine(m) ==
  LET m1 == [m EXCEPT !.engines = Append(@, [disposed |-> FALSE]),
                      !.engine = Len(m.engines) + 1]
  IN  Call(Call(NotePeak(m1), "new Engine"), "engine.stopRenderLoop")

\* faulty variant: the scene keeps the clear settings a new Scene starts with
newScene_defaultClear(m) ==
  LET s == [ engine |-> m.engine, disposed |-> FALSE,
             clearColor |-> <<2, 2, 3, 10>>,
             autoClear |-> TRUE,
             autoClearDepthAndStencil |-> TRUE,
             useRightHandedSystem |-> Coalesce(m.options.useRightHandedSystem, FALSE),
             lights |-> 0 ]
      m1 == [m EXCEPT !.scenes = Append(@, s), !.scene = Len(m.scenes) + 1]
  IN  Call(Call(NotePeak(m1), "new Scene"), "scene.detachControl")

\* this._scene = new Scene(this._engine) and the settings that follow it; the
\* clear colour is a Color4 <<r, g, b, a>> in tenths
newScene(m) ==
  LET s == [ engine |-> m.engine, disposed |-> FALSE,
             clearColor |-> <<0, 0, 0, 0>>,
             autoClear |-> FALSE,
             autoClearDepthAndStencil |-> FALSE,
             useRightHandedSystem |-> Coalesce(m.options.useRightHandedSystem, FALSE),
             lights |-> 0 ]
      m1 == [m EXCEPT !.scenes = Append(@, s), !.scene = Len(m.scenes) + 1]
  IN  Call(Call(NotePeak(m1), "new Scene"), "scene.detachControl")

initSceneLighting(m) ==
  Call([m EXCEPT !.scenes[m.scene].lights = @ + 1], "new HemisphericLight")

\* the heap with a new FreeCamera in this._scene; the camera is its last element
createCamera(m) ==
  Call([m EXCEPT !.cameras = Append(@, [ name |-> CAMERA_NAME, scene |-> m.scene,
                                         disposed |-> FALSE, frozen |-> Undefined ])],
       "new FreeCamera")

\* this._map.triggerRepaint(); a call on undefined is a TypeError
triggerRepaint(m) ==
  IF m.map = Undefined THEN Throw(m)
  ELSE Call([m EXCEPT !.repaintPending = TRUE], "map.triggerRepaint")

-----------------------------------------------------------------------------
(* The controller's methods, statement by statement. *)

\* faulty variant: the Euler angles render uses are not refreshed
setUpAxisBody_quaternionOnly(m, axis) ==
  LET upVector == NormalizeVec(upVectorOf(axis))
      q == FromUnitVectors(upVector, DEFAULT_UP)
  IN  [m EXCEPT !.rotationInverse = QInvert(q)]

setUpAxisBody(m, axis) ==
  LET m1 == IF warnsOn(axis) THEN Call(m, "console.warn") ELSE m
      upVector == NormalizeVec(upVectorOf(axis))
      q == FromUnitVectors(upVector, DEFAULT_UP)
  IN  [m1 EXCEPT !.rotationInverse = QInvert(q),
                 !.rotationArray = toEulerAngles(q)]

\* faulty variant: setAnchor also moves the cached mercator coordinate
setAnchorBody_rederive(m, a) ==
  [m EXCEPT !.anchor = Some(a), !.anchorMercatorCoordinate.x = mercatorX(a.lng)]

setAnchorBody(m, a) == [m EXCEPT !.anchor = Some(a)]

requestRedrawBody(m) == triggerRepaint(m)

\* latLngToVector3Relative reads reference.lng: a TypeError while this.anchor
\* is undefined
latLngAltitudeToVector3RefBody(m, position) ==
  IF m.anchor = Undefined THEN Throw(m)
  ELSE [m EXCEPT !.result =
          Some(applyRotationQuaternion(
                 latLngToVector3Relative(position, m.anchor[1]),
                 m.rotationInverse))]

\* the constructor, from the options object it is given
constructorBody(o) ==
  LET opts == [ anchor |-> o.anchor, altitude |-> o.altitude,
                upAxis |-> Some(Coalesce(o.upAxis, AxisString("Y"))),
                camera |-> o.camera,
                addDefaultLighting |-> Some(Coalesce(o.addDefaultLighting, TRUE)),
                useRightHandedSystem |-> o.useRightHandedSystem ]
      amc == fromLngLat(o.anchor, Coalesce(o.altitude, 0))
      m0 == [ options |-> opts, anchor |-> Undefined,
              rotationInverse |-> <<0, 0, 0, 0>>, rotationArray |-> <<0, 0, 0>>,
              engine |-> 0, scene |-> 0, camera |-> 0, map |-> Undefined,
              scale |-> 0, anchorMercatorCoordinate |-> amc,
              engines |-> <<>>, scenes |-> <<>>,
              cameras |-> IF o.camera = Undefined THEN <<>>
                          ELSE <<[ name |-> "user", scene |-> 0,
                                   disposed |-> FALSE, frozen |-> Undefined ]>>,
              repaintPending |-> FALSE, waits |-> <<>>, peakLive |-> <<0, 0>>,
              calls |-> <<>>, threw |-> FALSE, result |-> Undefined ]
      m1 == setUpAxisBody(m0, opts.upAxis[1])
  IN  [m1 EXCEPT !.scale = meterInMercatorCoordinateUnits(amc.lat)]

\* the promise's resolve(): only the first call settles it
resolve(m, w, fromTimer) ==
  Call([m EXCEPT !.waits[w] =
          [@ EXCEPT !.resolves = @ + 1,
                    !.state = "resolved",
                    !.viaTimer = IF m.waits[w].state = "pending" THEN fromTimer ELSE @]],
       "resolve")

\* faulty variant: the poll is not scheduled again
setTimeout_dropped(m, w) == m

\* setTimeout(checkScene, 100)
setTimeout(m, w) == Call([m EXCEPT !.waits[w].timers = @ + 1], "setTimeout")

\* faulty variant: the poll resolves without looking at the scene
checkScene_noCheck(m, w, fromTimer) == resolve(m, w, fromTimer)

checkScene(m, w, fromTimer) ==
  IF m.scene # 0 THEN resolve(m, w, fromTimer) ELSE setTimeout(m, w)

\* new Promise(executor): the executor runs at once
waitForSceneInitBody(m) ==
  LET w == Len(m.waits) + 1
      m1 == [m EXCEPT !.waits = Append(@, [ state |-> "pending", timers |-> 0,
                                            resolves |-> 0, viaTimer |-> FALSE ])]
  IN  checkScene(m1, w, FALSE)

\* a timer of wait w fires
timerBody(m, w) == checkScene([m EXCEPT !.waits[w].timers = @ - 1], w, TRUE)

\* faulty variant: the old scene and engine are left alive
disposeExisting_none(m) == m

\* lines 264-270 of _onAdd
disposeExisting(m) ==
  LET m1 == IF m.scene # 0 THEN sceneDispose(m) ELSE m
  IN  IF m1.engine # 0 THEN engineDispose(m1) ELSE m1

\* faulty variant: a camera whose scene was disposed is dropped, not replaced
setupCamera_dropStale(m) ==
  IF m.camera # 0
  THEN (IF m.cameras[m.camera].disposed THEN [m EXCEPT !.camera = 0] ELSE m)
  ELSE LET m1 == createCamera(m) IN [m1 EXCEPT !.camera = Len(m1.cameras)]

\* line 296 of _onAdd
setupCamera(m) ==
  IF m.camera # 0 THEN m
  ELSE LET m1 == createCamera(m) IN [m1 EXCEPT !.camera = Len(m1.cameras)]

onAddBody(m, hostMap) ==
  LET m1 == disposeExisting(m)
      m2 == [m1 EXCEPT !.map = Some(hostMap)]
      m3 == newScene(newEngine(m2))
      m4 == IF m3.options.addDefaultLighting[1] THEN initSceneLighting(m3) ELSE m3
  IN  setupCamera(m4)

\* engine.wipeCaches(true), which the environment may make throw
wipeCaches(m, wipeThrows) ==
  IF wipeThrows THEN Throw(Call(m, "engine.wipeCaches"))
  ELSE Call(m, "engine.wipeCaches")

\* faulty variant: no try / catch around the cache reset
resetState_noCatch(m, wipeThrows) == wipeCaches(m, wipeThrows)

\* try { engine.wipeCaches(true) } catch (e) { /* ignore */ }
resetState(m, wipeThrows) == [wipeCaches(m, wipeThrows) EXCEPT !.threw = FALSE]

\* faulty variant: no guard
renderGuard_none(m) == FALSE

\* line 300 of _render
renderGuard(m) == m.camera = 0 \/ m.scene = 0 \/ m.map = Undefined

\* faulty variant: the rotation of the frame before is kept for the next frames
frameMatrix_staleRotation(m, matrix) ==
  LET s == <<m.scale, m.scale, m.scale>>
      rotation == IF m.cameras[m.camera].frozen # Undefined
                  THEN m.cameras[m.camera].frozen[1].left.rotation
                  ELSE RotationYawPitchRoll(m.rotationArray[2], 0 - m.rotationArray[1],
                                            m.rotationArray[3])
      translation == << m.anchorMercatorCoordinate.x, m.anchorMercatorCoordinate.y,
                        m.anchorMercatorCoordinate.z >>
  IN  Multiply(Compose(s, rotation, translation), matrix)

\* the matrix _render installs, from the cached state and the host's matrix
frameMatrix(m, matrix) ==
  LET s == <<m.scale, m.scale, m.scale>>
      rotation == RotationYawPitchRoll(m.rotationArray[2], 0 - m.rotationArray[1],
                                       m.rotationArray[3])
      translation == << m.anchorMercatorCoordinate.x, m.anchorMercatorCoordinate.y,
                        m.anchorMercatorCoordinate.z >>
      world == Compose(s, rotation, translation)
  IN  Multiply(world, matrix)

\* a method call on this._camera / this._scene: a TypeError when undefined
freezeProjectionMatrix(m, mat) ==
  IF m.camera = 0 THEN Throw(m)
  ELSE Call([m EXCEPT !.cameras[m.camera].frozen = Some(mat)],
            "camera.freezeProjectionMatrix")

sceneRender(m) ==
  IF m.threw THEN m
  ELSE IF m.scene = 0 THEN Throw(m)
  ELSE Call(m, "scene.render")

\* faulty variant: the frame ends without asking for the next one
renderBody_noRepaint(m, matrix, wipeThrows) ==
  IF renderGuard(m) THEN m
  ELSE LET m1 == sceneRender(freezeProjectionMatrix(m, frameMatrix(m, matrix)))
       IN  IF m1.threw THEN m1 ELSE resetState(m1, wipeThrows)

\* faulty variant: the repaint is requested before the caches are reset
renderBody_repaintFirst(m, matrix, wipeThrows) ==
  IF renderGuard(m) THEN m
  ELSE LET m1 == sceneRender(freezeProjectionMatrix(m, frameMatrix(m, matrix)))
           m2 == IF m1.threw THEN m1 ELSE triggerRepaint(m1)
       IN  IF m2.threw THEN m2 ELSE resetState(m2, wipeThrows)

\* m1 is the state after line 322 and m2 the state after line 323, each bound
\* once; a statement runs unless an exception left the one before it
renderBody(m, matrix, wipeThrows) ==
  IF renderGuard(m) THEN m
  ELSE CHOOSE end \in
         { IF m2.threw THEN m2 ELSE triggerRepaint(m2) :
             m2 \in { IF m1.threw THEN m1 ELSE resetState(m1, wipeThrows) :
                      m1 \in { sceneRender(freezeProjectionMatrix(
                                             m, frameMatrix(m, matrix))) } } } : TRUE

-----------------------------------------------------------------------------
(* The state machine. *)

\* the state the constructor leaves, for each options object
Init ==
  \E o \in CtorOptions :
    LET m == constructorBody(o)
    IN  /\ options = m.options
        /\ anchor = m.anchor
        /\ rotationInverse = m.rotationInverse
        /\ rotationArray = m.rotationArray
        /\ engine = m.engine
        /\ scene = m.scene
        /\ camera = m.camera
        /\ map = m.map
        /\ scale = m.scale
        /\ anchorMercatorCoordinate = m.anchorMercatorCoordinate
        /\ engines = m.engines
        /\ scenes = m.scenes
        /\ cameras = m.cameras
        /\ repaintPending = m.repaintPending
        /\ waits = m.waits
        /\ peakLive = m.peakLive
        /\ last = [op |-> "constructor", arg |-> NoArg, calls |-> m.calls,
                   threw |-> m.threw, result |-> m.result]

\* the host adds the layer (again after a context loss): onAdd(map, gl)
onAdd ==
  /\ Len(engines) < MaxAttach
  /\ \E c \in {Cur} :
       \E m \in {onAddBody(c, "map")} : Commit(m, "onAdd", NoArg)

\* the host draws a frame: render(gl, matrix); the frame takes the pending
\* repaint request with it
render ==
  \E c \in {[Cur EXCEPT !.repaintPending = FALSE]}, matrix \in Matrices,
     wipeThrows \in BOOLEAN :
    \E m \in {renderBody(c, matrix, wipeThrows)} :
      Commit(m, "render", [NoArg EXCEPT !.matrix = matrix, !.wipeThrows = wipeThrows])

setAnchor ==
  \E c \in {Cur}, a \in Points :
    \E m \in {setAnchorBody(c, a)} :
      Commit(m, "setAnchor", [NoArg EXCEPT !.point = Some(a)])

setUpAxis ==
  \E c \in {Cur}, axis \in UpAxes :
    \E m \in {setUpAxisBody(c, axis)} :
      Commit(m, "setUpAxis", [NoArg EXCEPT !.axis = Some(axis)])

requestRedraw ==
  \E c \in {Cur} :
    \E m \in {requestRedrawBody(c)} : Commit(m, "requestRedraw", NoArg)

latLngAltitudeToVector3Ref ==
  \E c \in {Cur}, p \in Points :
    \E m \in {latLngAltitudeToVector3RefBody(c, p)} :
      Commit(m, "latLngAltitudeToVector3Ref", [NoArg EXCEPT !.point = Some(p)])

waitForSceneInit ==
  /\ Len(waits) < MaxWaits
  /\ \E c \in {Cur} :
       \E m \in {waitForSceneInitBody(c)} :
         Commit(m, "waitForSceneInit", [NoArg EXCEPT !.wait = Len(waits) + 1])

\* a timer set by checkScene fires for wait w
timerOf(w) ==
  /\ w <= Len(waits)
  /\ waits[w].timers > 0
  /\ \E c \in {Cur} :
       \E m \in {timerBody(c, w)} :
         Commit(m, "checkScene", [NoArg EXCEPT !.wait = w])

checkSceneTimer == \E w \in 1..MaxWaits : timerOf(w)

Next ==
  \/ onAdd
  \/ render
  \/ setAnchor
  \/ setUpAxis
  \/ requestRedraw
  \/ latLngAltitudeToVector3Ref
  \/ waitForSceneInit
  \/ checkSceneTimer

Spec == Init /\ [][Next]_vars

\* the event loop runs every timer that is due
FairSpec == Spec /\ \A w \in 1..MaxWaits : WF_vars(timerOf(w))

\* a frame the host draws because a repaint was requested
hostRender == repaintPending /\ render

\* the host map draws a frame after every repaint request
HostSpec == Spec /\ WF_vars(hostRender)

-----------------------------------------------------------------------------
(* Properties. *)

\* onAdd has run at least once
Attached == Len(engines) > 0

\* the calls of a render that went past its guard, in order
FrameCalls ==
  << "camera.freezeProjectionMatrix", "scene.render", "engine.wipeCaches",
     "map.triggerRepaint" >>

\* the position of call c in a handler's log (0 when absent)
IndexOf(calls, c) ==
  IF \E i \in 1..Len(calls) : calls[i] = c
  THEN CHOOSE i \in 1..Len(calls) : calls[i] = c /\ \A j \in 1..(i - 1) : calls[j] # c
  ELSE 0
CountOf(calls, c) == Cardinality({i \in 1..Len(calls) : calls[i] = c})

(* C1: while onAdd has not run, a render call is a silent no-op: it throws
   nothing, calls nothing on the camera, the scene, the engine or the host
   map, and leaves every field of the controller and every object unchanged. *)
C1_RenderBeforeAttachIsNoOp ==
  [][ (~Attached /\ last'.op = "render") =>
        /\ ~last'.threw
        /\ last'.calls = <<>>
        /\ ctl' = ctl
        /\ heap' = heap
        /\ waits' = waits
        /\ ~repaintPending' ]_vars

C1_Witness == last.op = "render" /\ ~Attached

(* C2: onAdd disposes the scene and the engine it holds before it creates
   the new ones, so at no statement of any handler are two engines or two
   scenes of the controller alive; the first onAdd disposes nothing and does
   not throw. *)
C2_DisposeBeforeCreate ==
  /\ peakLive[1] <= 1
  /\ peakLive[2] <= 1
  /\ LiveCount(engines) <= 1
  /\ LiveCount(scenes) <= 1
  /\ last.op = "onAdd" =>
       /\ ~last.threw
       /\ CountOf(last.calls, "new Engine") = 1
       /\ CountOf(last.calls, "new Scene") = 1
       /\ IndexOf(last.calls, "new Engine") < IndexOf(last.calls, "new Scene")
       /\ IF Len(engines) = 1
          THEN /\ CountOf(last.calls, "scene.dispose") = 0
               /\ CountOf(last.calls, "engine.dispose") = 0
          ELSE /\ CountOf(last.calls, "scene.dispose") = 1
               /\ CountOf(last.calls, "engine.dispose") = 1
               /\ IndexOf(last.calls, "scene.dispose") < IndexOf(last.calls, "new Engine")
               /\ IndexOf(last.calls, "engine.dispose") < IndexOf(last.calls, "new Engine")
               /\ \A i \in 1..(Len(engines) - 1) : engines[i].disposed /\ scenes[i].disposed
       /\ ~engines[engine].disposed
       /\ ~scenes[scene].disposed

C2_Witness ==
  /\ last.op = "onAdd"
  /\ Len(engines) = 2
  /\ engines[1].disposed
  /\ scenes[1].disposed

(* C3: a render call that passes the guard installs the world-times-projection
   matrix as the camera's frozen projection matrix, then runs the scene's
   render pass, then resets the engine's caches, then asks the host map to
   repaint: each once, in this order. *)
C3_FrameOrder ==
  (last.op = "render" /\ camera # 0 /\ scene # 0 /\ map # Undefined) =>
    /\ ~last.threw
    /\ last.calls = FrameCalls
    /\ cameras[camera].frozen # Undefined
    /\ cameras[camera].frozen[1].right = last.arg.matrix
    /\ cameras[camera].frozen[1].left =
         Compose(<<scale, scale, scale>>,
                 RotationYawPitchRoll(rotationArray[2], 0 - rotationArray[1],
                                      rotationArray[3]),
                 << anchorMercatorCoordinate.x, anchorMercatorCoordinate.y,
                    anchorMercatorCoordinate.z >>)
    /\ repaintPending

C3_Witness == last.op = "render" /\ last.calls # <<>> /\ last.arg.matrix = "M2"

(* C4: requestRedraw asks the host map to repaint when the host handle is
   present and does nothing, without throwing, when it is absent. *)
C4_RequestRedrawGuarded ==
  last.op = "requestRedraw" =>
    /\ ~last.threw
    /\ IF map = Undefined
       THEN last.calls = <<>> /\ ~repaintPending
       ELSE last.calls = <<"map.triggerRepaint">> /\ repaintPending

\* the anchor the constructor was given, as a LatLngAltLike
CtorAnchor ==
  [ lat |-> options.anchor.lat, lng |-> options.anchor.lng,
    altitude |-> Coalesce(options.altitude, 0) ]

(* C5: latLngAltitudeToVector3Ref(p) returns the position of p relative to
   the anchor current at the call: the constructor's anchor while setAnchor
   has not been called, the argument of the last setAnchor afterwards. *)
C5_RelativeToCurrentAnchor ==
  last.op = "latLngAltitudeToVector3Ref" =>
    /\ ~last.threw
    /\ last.result =
         Some(applyRotationQuaternion(
                latLngToVector3Relative(
                  last.arg.point[1],
                  IF anchor = Undefined THEN CtorAnchor ELSE anchor[1]),
                rotationInverse))

\* the mercator state the constructor derived from its options
CtorMercator == fromLngLat(options.anchor, Coalesce(options.altitude, 0))

(* C6: setAnchor changes the anchor latLngAltitudeToVector3Ref uses and
   nothing else: the cached mercator coordinate, the cached scale, the
   orientation correction and the engine, scene, camera and map handles stay
   as they were, so a render after setAnchor(B) still takes its scale and
   translation from the constructor's anchor. *)
C6_SetAnchorOnlySetsAnchor ==
  [][ /\ last'.op = "setAnchor" =>
           /\ anchor' = last'.arg.point
           /\ UNCHANGED << anchorMercatorCoordinate, scale, rotationInverse,
                           rotationArray, engine, scene, camera, map, options,
                           engines, scenes, cameras, repaintPending, waits >>
      /\ (last'.op = "render" /\ last'.calls # <<>>) =>
           /\ cameras'[camera'].frozen[1].left.translation =
                <<CtorMercator.x, CtorMercator.y, CtorMercator.z>>
           /\ cameras'[camera'].frozen[1].left.scale =
                << meterInMercatorCoordinateUnits(options.anchor.lat),
                   meterInMercatorCoordinateUnits(options.anchor.lat),
                   meterInMercatorCoordinateUnits(options.anchor.lat) >> ]_vars

C6_Witness ==
  /\ last.op = "render"
  /\ last.calls # <<>>
  /\ anchor # Undefined
  /\ anchor[1].lat # options.anchor.lat

\* a wait that has been started
Started(w) == w <= Len(waits)
Pending(w) == w <= Len(waits) /\ waits[w].state = "pending"
Resolved(w) == w <= Len(waits) /\ waits[w].state = "resolved"

(* C7: a promise of waitForSceneInit is resolved only in states where the
   scene exists, at most once, and is never rejected; while the scene is
   absent it is pending with exactly one poll scheduled, and a poll calls
   nothing but setTimeout or resolve. *)
C7_WaitSafety ==
  /\ \A w \in 1..Len(waits) :
       /\ waits[w].state \in {"pending", "resolved"}
       /\ waits[w].resolves <= 1
       /\ waits[w].state = "resolved" =>
            scene # 0 /\ waits[w].resolves = 1 /\ waits[w].timers = 0
       /\ waits[w].state = "pending" =>
            waits[w].resolves = 0 /\ waits[w].timers = 1
       /\ scene = 0 => waits[w].state = "pending"
  /\ last.op \in {"waitForSceneInit", "checkScene"} =>
       /\ ~last.threw
       /\ IF Resolved(last.arg.wait)
          THEN last.calls = <<"resolve">>
          ELSE last.calls = <<"setTimeout">>

C7_Witness ==
  /\ last.op = "checkScene"
  /\ Pending(last.arg.wait)
  /\ ~Attached

(* C8: with the timers run fairly, a wait is resolved once the scene exists,
   whenever it was started; while the scene is absent every started wait is
   pending with its next poll scheduled. *)
C8_WaitLiveness ==
  /\ \A w \in 1..MaxWaits : (Started(w) /\ scene # 0) ~> Resolved(w)
  /\ [](scene = 0 => \A w \in 1..Len(waits) : Pending(w) /\ waits[w].timers = 1)
  /\ [][\A w \in 1..Len(waits) : Resolved(w) => Resolved(w)']_vars

C8_Witness ==
  \E w \in 1..Len(waits) : Resolved(w) /\ waits[w].viaTimer /\ Len(engines) = 2

(* C9: setUpAxis with a string that is neither "Y" nor "Z" in any case does
   not throw, warns once and leaves the orientation correction setUpAxis("Y")
   leaves: the identity quaternion and zero Euler angles; "Y", "Z" in any
   case and vectors warn nothing. *)
C9_InvalidUpAxisFallsBack ==
  last.op = "setUpAxis" =>
    /\ ~last.threw
    /\ IF last.arg.axis[1].isString /\ last.arg.axis[1].s \notin {"Y", "y", "Z", "z"}
       THEN /\ last.calls = <<"console.warn">>
            /\ rotationInverse = <<0, 0, 0, 1>>
            /\ rotationArray = <<0, 0, 0>>
            /\ rotationInverse = setUpAxisBody(Cur, AxisString("Y")).rotationInverse
            /\ rotationArray = setUpAxisBody(Cur, AxisString("Y")).rotationArray
       ELSE last.calls = <<>>

C9_Witness ==
  /\ last.op = "setUpAxis"
  /\ last.arg.axis = Some(AxisString("X"))
  /\ last.calls = <<"console.warn">>

(* C10: when the engine's cache reset throws inside a render call, the
   exception does not leave the render callback: the host map is still asked
   to repaint and the state is the one a render with a successful cache
   reset leaves. *)
C10_CacheResetFailureIsDropped ==
  [][ (last'.op = "render" /\ last'.arg.wipeThrows
         /\ camera # 0 /\ scene # 0 /\ map # Undefined) =>
        /\ ~last'.threw
        /\ last'.calls = FrameCalls
        /\ repaintPending'
        /\ \E m \in {renderBody(Cur, last'.arg.matrix, FALSE)} :
             /\ ctl' = << m.options, m.anchor, m.rotationInverse, m.rotationArray,
                          m.engine, m.scene, m.camera, m.map, m.scale,
                          m.anchorMercatorCoordinate >>
             /\ heap' = <<m.engines, m.scenes, m.cameras>>
             /\ repaintPending' = m.repaintPending
             /\ waits' = m.waits
             /\ last'.calls = m.calls
             /\ last'.threw = m.threw ]_vars

C10_Witness ==
  /\ last.op = "render"
  /\ last.arg.wipeThrows
  /\ last.calls = FrameCalls
  /\ repaintPending

(* C11: when the options supply a camera, that camera is the controller's
   camera after onAdd (the one the camera getter returns and the one every
   render freezes the projection matrix of); onAdd creates a FreeCamera only
   when the options supply none. *)
C11_OptionsCameraIsUsed ==
  Attached =>
    /\ options.camera # Undefined => camera = options.camera[1]
    /\ (last.op = "onAdd" /\ CountOf(last.calls, "new FreeCamera") > 0) =>
         options.camera = Undefined
    /\ (last.op = "render" /\ options.camera # Undefined) =>
         /\ cameras[options.camera[1]].frozen # Undefined
         /\ cameras[options.camera[1]].frozen[1].right = last.arg.matrix

(* C12: in every state in which the controller holds a scene, whatever the
   number of onAdd calls, that scene has autoClear and
   autoClearDepthAndStencil off and a fully transparent clear colour, so every
   scene render pass of render runs with automatic clearing off. *)
C12_NeverAutoClears ==
  /\ scene # 0 =>
       /\ scenes[scene].autoClear = FALSE
       /\ scenes[scene].autoClearDepthAndStencil = FALSE
       /\ scenes[scene].clearColor = <<0, 0, 0, 0>>
  /\ (last.op = "render" /\ CountOf(last.calls, "scene.render") > 0) =>
       /\ scene # 0
       /\ ~scenes[scene].autoClear
       /\ ~scenes[scene].autoClearDepthAndStencil
       /\ scenes[scene].clearColor[4] = 0

C12_Witness ==
  /\ last.op = "render"
  /\ CountOf(last.calls, "scene.render") = 1
  /\ scene = 2
  /\ ~scenes[scene].autoClear

\* the orientation correction an up-axis argument stands for: the inverse
\* quaternion and the Euler triple
OrientationOf(axis) ==
  LET q == FromUnitVectors(NormalizeVec(upVectorOf(axis)), DEFAULT_UP)
  IN  <<QInvert(q), toEulerAngles(q)>>

(* C13: the cached orientation correction is the one of the most recent
   setUpAxis argument, the constructor's included: setUpAxis sets the inverse
   quaternion and the Euler triple together, no other operation changes
   either, and a render composes its matrix from the Euler triple current at
   the call. *)
C13_OrientationFromLastSetUpAxis ==
  /\ [](last.op = "constructor" =>
          <<rotationInverse, rotationArray>> = OrientationOf(options.upAxis[1]))
  /\ [][ /\ last'.op = "setUpAxis" =>
              <<rotationInverse', rotationArray'>> = OrientationOf(last'.arg.axis[1])
         /\ last'.op # "setUpAxis" => UNCHANGED <<rotationInverse, rotationArray>>
         /\ (last'.op = "render" /\ last'.calls # <<>>) =>
              cameras'[camera'].frozen[1].left.rotation =
                RotationYawPitchRoll(rotationArray[2], 0 - rotationArray[1],
                                     rotationArray[3]) ]_vars

C13_Witness ==
  /\ last.op = "render"
  /\ last.calls # <<>>
  /\ options.upAxis = Some(AxisString("Y"))
  /\ rotationArray = <<-1, 0, 0>>
  /\ cameras[camera].frozen[1].left.rotation = RotationYawPitchRoll(0, 1, 0)

(* C14: once onAdd has run and the host draws a frame after every repaint
   request, render is invoked again and again for ever: every render after
   onAdd leaves a repaint requested, no setAnchor, setUpAxis, requestRedraw or
   further onAdd withdraws the request, and from a requested repaint on the
   render steps (the steps that end with render as the latest handler) never
   cease. *)
C14_RenderCycleNeverStalls ==
  /\ []((Attached /\ last.op = "render") =>
          (repaintPending /\ ~last.threw
             /\ last.calls[Len(last.calls)] = "map.triggerRepaint"))
  /\ [][(Attached /\ repaintPending) => repaintPending']_vars
  /\ ([]~(Attached /\ repaintPending) \/ []<><<last'.op = "render">>_vars)

C14_Witness ==
  /\ last.op = "render"
  /\ repaintPending
  /\ Len(engines) = 2
  /\ anchor # Undefined
  /\ rotationArray = <<-1, 0, 0>>

\* point and reference have one latitude and one longitude
SamePlace(point, reference) ==
  point.lat = reference.lat /\ point.lng = reference.lng

(* C15: for every anchor and every point with the anchor's latitude and
   longitude, latLngToVector3Relative(point, anchor) is exactly
   (0, 0, point.altitude - anchor.altitude): the anchor maps to the origin. *)
C15_AnchorMapsToOrigin ==
  (last.op = "latLngAltitudeToVector3Ref" /\ anchor # Undefined
     /\ SamePlace(last.arg.point[1], anchor[1])) =>
    latLngToVector3Relative(last.arg.point[1], anchor[1]) =
      Vec(Fin(0), Fin(0), Fin(last.arg.point[1].altitude - anchor[1].altitude))

\* the unit quaternion of no rotation
IdentityQuaternion == <<0, 0, 0, 1>>

\* the up-axis setting is the one setUpAxis(axis) leaves
UpAxisIs(axis) == <<rotationInverse, rotationArray>> = OrientationOf(axis)

(* C16: with the up-axis set to "Y" the orientation correction is the
   identity: for every anchor and point latLngAltitudeToVector3Ref(point)
   returns, in the target it was given, the vector latLngToVector3Relative
   (point, anchor) computes, unrotated. *)
C16_YIsIdentity ==
  /\ UpAxisIs(AxisString("Y")) => rotationInverse = IdentityQuaternion
  /\ (last.op = "latLngAltitudeToVector3Ref" /\ UpAxisIs(AxisString("Y"))) =>
       /\ ~last.threw
       /\ last.result =
            Some(latLngToVector3Relative(
                   last.arg.point[1],
                   IF anchor = Undefined THEN CtorAnchor ELSE anchor[1]))

(* C17: setUpAxis("Z") and then setUpAxis("Y") on one instance leave two
   different orientation-correction quaternions, neither of them the
   identity, and latLngAltitudeToVector3Ref converts the same point to
   different vectors under the two settings. *)
C17_ZThenYBothRotate ==
  [][ (last'.op = "setUpAxis" /\ last'.arg.axis = Some(AxisString("Y"))
         /\ UpAxisIs(AxisString("Z"))) =>
        /\ rotationInverse # IdentityQuaternion
        /\ rotationInverse' # IdentityQuaternion
        /\ rotationInverse' # rotationInverse
        /\ \A p \in Points :
             /\ ~latLngAltitudeToVector3RefBody(Cur, p).threw
             /\ latLngAltitudeToVector3RefBody(Cur, p).result #
                  Some(applyRotationQuaternion(
                         latLngToVector3Relative(
                           p, IF anchor = Undefined THEN CtorAnchor ELSE anchor[1]),
                         rotationInverse')) ]_vars

\* the matrix of a frame as a function of the cached mercator state, the
\* cached Euler triple and the host's projection matrix, and of nothing else
FrameOf(sc, amc, euler, matrix) ==
  Multiply(Compose(<<sc, sc, sc>>,
                   RotationYawPitchRoll(euler[2], 0 - euler[1], euler[3]),
                   <<amc.x, amc.y, amc.z>>),
           matrix)

(* C18: the matrix a render installs is a function of the cached mercator
   state (scale, x, y, z), the cached Euler triple and the projection matrix
   of that call only: no operation changes the mercator state, only setUpAxis
   changes the Euler triple, every render past the guard installs FrameOf of
   these and its argument, and a render given the projection matrix of the
   frame before it, with the Euler triple that frame had, installs the matrix
   that frame installed, whatever was called in between. *)
C18_FrameIsPureFunction ==
  [][ /\ UNCHANGED <<scale, anchorMercatorCoordinate>>
      /\ last'.op # "setUpAxis" => UNCHANGED rotationArray
      /\ (last'.op = "render" /\ last'.calls # <<>>) =>
           /\ cameras'[camera'].frozen =
                Some(FrameOf(scale, anchorMercatorCoordinate, rotationArray,
                             last'.arg.matrix))
           /\ (/\ cameras[camera].frozen # Undefined
               /\ cameras[camera].frozen[1].right = last'.arg.matrix
               /\ cameras[camera].frozen[1].left.rotation =
                    RotationYawPitchRoll(rotationArray[2], 0 - rotationArray[1],
                                         rotationArray[3])) =>
                cameras'[camera'].frozen = cameras[camera].frozen ]_vars

C18_Witness ==
  /\ last.op = "render"
  /\ last.calls # <<>>
  /\ Len(engines) = 2
  /\ anchor # Undefined
  /\ options.anchor.lat # anchor[1].lat
  /\ cameras[camera].frozen =
       Some(FrameOf(500, [x |-> 7500, y |-> 2904, z |-> 5000, lat |-> 60],
                    <<-1, 0, 0>>, "M1"))

(* C19: when the options omit upAxis, the orientation correction the
   constructor leaves is the one of the documented default, setUpAxis("Z"). *)
C19_DefaultUpAxisIsZ ==
  last.op = "constructor" =>
    \A o \in CtorOptions :
      (/\ o.upAxis = Undefined
       /\ o.anchor = options.anchor
       /\ o.altitude = options.altitude
       /\ o.camera = options.camera) => UpAxisIs(AxisString("Z"))

\* the engine, the scene, the camera and the host map are all held
AllPresent == engine # 0 /\ scene # 0 /\ camera # 0 /\ map # Undefined

(* C20: once the first onAdd has completed, the engine, the scene, the camera
   and the host map are held in every later state, a further onAdd included,
   so every render after onAdd passes the guard and runs one scene render
   pass. *)
C20_AttachmentIsMonotonic ==
  /\ [](Attached => AllPresent)
  /\ [][AllPresent => AllPresent']_vars
  /\ []((Attached /\ last.op = "render") =>
          (~last.threw /\ CountOf(last.calls, "scene.render") = 1))

C20_Witness ==
  /\ last.op = "render"
  /\ Len(engines) = 2
  /\ engine = 2
  /\ AllPresent
  /\ CountOf(last.calls, "scene.render") = 1

(* C21: after any number of onAdd calls the camera whose projection matrix
   render freezes belongs to the scene the controller holds, and that scene
   is not disposed: a re-attach never leaves render driving a camera made for
   a scene that has since been disposed. *)
C21_CameraOfCurrentScene ==
  /\ Attached =>
       /\ cameras[camera].scene = scene
       /\ ~scenes[scene].disposed
  /\ (last.op = "render"
        /\ CountOf(last.calls, "camera.freezeProjectionMatrix") > 0) =>
       /\ cameras[camera].scene = scene
       /\ ~scenes[cameras[camera].scene].disposed

=============================================================================
